---- MODULE Spec2Model ----
(***************************************************************************)
(* HonorBot (src/bot.py): the honor ledger kept in SQLite by               *)
(* HonorRepository, the slash-command and message handlers that mutate it, *)
(* the pure rank functions get_rank / get_progress_bar, the leaderboard    *)
(* queries, and update_member_title / check_rewards, which reflect a       *)
(* balance in the member's Discord nickname and roles.                     *)
(*                                                                         *)
(* The bot runs on one asyncio event loop: a handler runs without          *)
(* interruption between two awaits that really suspend. HonorRepository    *)
(* is synchronous, so each action below is one such uninterrupted block.   *)
(***************************************************************************)
EXTENDS Integers, Sequences, FiniteSets, TLC

VARIABLES
    user_honor,   \* table user_honor: set of rows [user_id, honor]
    honor_log,    \* table honor_log: sequence of rows, in insertion (id) order
    daily_bonus,  \* table daily_bonus: set of rows [user_id, last_claimed]
    loot_log,     \* table loot_log: sequence of rows, in insertion (id) order
    clock,        \* wall clock, seconds since the Unix epoch (UTC)
    tz,           \* the process's local time-zone offset from UTC, in seconds
    log_cap,      \* the number of honor_log rows at which the run ends
    pc,           \* per handler task: the await it is suspended at
    member,       \* per handler task: the member it reconciles
    faults,       \* storage failures that have occurred
    RANKS,        \* the rank table imported from roles.py
    call,         \* the last repository, rank-function or reconciliation call observed
    nick,         \* Discord: per member, the guild nickname, as its words
    roles,        \* Discord: per member, the names of the roles held
    guild_roles,  \* Discord: the names of the roles that exist in the guild
    forbidden,    \* Discord: the member edits the bot is not permitted to make
    seen          \* per handler task: the discord.Member object it reconciles

vars == <<user_honor, honor_log, daily_bonus, loot_log, clock, tz, log_cap, pc,
          member, faults, RANKS, call, nick, roles, guild_roles, forbidden, seen>>

ledger == <<user_honor, honor_log, daily_bonus, loot_log>>

guild == <<nick, roles, guild_roles, forbidden>>

----------------------------------------------------------------------------
(* Bounds of the model *)

MaxLog == 3            \* honor_log rows written in one run
MaxTasks == 2          \* handler tasks in flight at once
MaxElapsed == 86400    \* seconds of wall-clock time one run covers
MaxFaults == 1         \* storage failures in one run
MaxTiers == 3          \* tiers in a rank table
MaxHelped == 101       \* helped commands in one run of SpecHelper

(* Program constants *)

HONOR_MIN == -144000
HONOR_MAX == 144000
BLESS_AMOUNT == 100000
THANKS_AMOUNT == 20
HELPED_AMOUNT == 30
INSULT_PENALTY == -100000
LOOTBOX_COOLDOWN == 86400
BAR_LEN == 16
HELPER_COUNT == 100
BLESSER_COUNT == 50

None == 0              \* Python None / SQL NULL (no user id is 0)

----------------------------------------------------------------------------
(* Inputs *)

Users == {1, 2}                    \* ids of human members
Bots == {9}                        \* ids of bot accounts
Members == Users \cup Bots
Tasks == 1..MaxTasks
StartClock == 19781 * 86400         \* 2024-02-28 00:00:00 UTC
ClockSteps == {79200, 86400}       \* 22 h and 24 h
TzOffsets == {-7200, 0, 7200}
DailyBonuses == {500}              \* one of random.randint(100, 500)
LootRewards == {5000}              \* one of the lootbox rewards
LocalInsults == {"idiot"}          \* a word of badwords.local_insults
ExternalInsult == "(externe Beleidigung erkannt)"

----------------------------------------------------------------------------
(* Calendar arithmetic of datetime / SQLite CURRENT_TIMESTAMP *)

\* days since 1970-01-01 -> <<year, month, day>> (proleptic Gregorian)
CivilFromDays(days) ==
    LET z == days + 719468
        era == z \div 146097
        doe == z - era * 146097
        yoe == (doe - doe \div 1460 + doe \div 36524 - doe \div 146096) \div 365
        doy == doe - (365 * yoe + yoe \div 4 - yoe \div 100)
        mp == (5 * doy + 2) \div 153
        d == doy - (153 * mp + 2) \div 5 + 1
        m == IF mp < 10 THEN mp + 3 ELSE mp - 9
        y == yoe + era * 400 + (IF m <= 2 THEN 1 ELSE 0)
    IN  <<y, m, d>>

\* <<year, month, day>> -> days since 1970-01-01
DaysFromCivil(ymd) ==
    LET y == ymd[1] - (IF ymd[2] <= 2 THEN 1 ELSE 0)
        era == y \div 400
        yoe == y - era * 400
        mp == IF ymd[2] > 2 THEN ymd[2] - 3 ELSE ymd[2] + 9
        doy == (153 * mp + 2) \div 5 + ymd[3] - 1
        doe == yoe * 365 + yoe \div 4 - yoe \div 100 + doy
    IN  era * 146097 + doe - 719468

\* seconds since the epoch -> <<Y, M, D, h, m, s>>, the fields of the text
\* "YYYY-MM-DD HH:MM:SS"
DateTimeFields(secs) ==
    LET ymd == CivilFromDays(secs \div 86400)
        sod == secs % 86400
    IN  <<ymd[1], ymd[2], ymd[3], sod \div 3600, (sod % 3600) \div 60, sod % 60>>

\* SQLite CURRENT_TIMESTAMP: the UTC time as text
CURRENT_TIMESTAMP == DateTimeFields(clock)

\* datetime.datetime.now(): the naive local time
Now == DateTimeFields(clock + tz)

\* datetime.date.today().isoformat(): the local date as text "YYYY-MM-DD"
Today == CivilFromDays((clock + tz) \div 86400)

\* (a - b).total_seconds() of two naive datetimes
TotalSeconds(a, b) ==
    (DaysFromCivil(<<a[1], a[2], a[3]>>) - DaysFromCivil(<<b[1], b[2], b[3]>>)) * 86400
    + (a[4] - b[4]) * 3600 + (a[5] - b[5]) * 60 + (a[6] - b[6])

\* text comparison of two timestamps (ORDER BY ts): field by field
RECURSIVE TsLess(_, _, _)
TsLess(a, b, i) ==
    IF i > Len(a) THEN FALSE
    ELSE IF a[i] # b[i] THEN a[i] < b[i]
    ELSE TsLess(a, b, i + 1)

----------------------------------------------------------------------------
(* HonorRepository *)

Max(a, b) == IF a >= b THEN a ELSE b
Min(a, b) == IF a <= b THEN a ELSE b

\* (mutation of Clamp: the upper bound is forgotten)
Clamp_no_max(value) == Max(HONOR_MIN, value)

\* max(HONOR_MIN, min(HONOR_MAX, value))
Clamp(value) == Max(HONOR_MIN, Min(HONOR_MAX, value))

\* (mutation of get_user_honor: the row is never found)
get_user_honor_no_row(uh, user_id) == 0

get_user_honor(uh, user_id) ==
    LET rows == {r \in uh : r.user_id = user_id}
    IN  IF rows = {} THEN 0 ELSE (CHOOSE r \in rows : TRUE).honor

\* (mutation of set_user_honor: INSERT OR IGNORE, an existing row is kept)
set_user_honor_ignore(uh, user_id, value) ==
    IF \E r \in uh : r.user_id = user_id THEN uh
    ELSE uh \cup {[user_id |-> user_id, honor |-> Clamp(value)]}

\* INSERT ... ON CONFLICT(user_id) DO UPDATE SET honor = excluded.honor
set_user_honor(uh, user_id, value) ==
    {r \in uh : r.user_id # user_id}
        \cup {[user_id |-> user_id, honor |-> Clamp(value)]}

\* (mutation of log_honor_change: the newest row is overwritten)
log_honor_change_replace(log, user_id, delta, reason, by) ==
    LET row == [id |-> Max(Len(log), 1), user_id |-> user_id, delta |-> delta,
                reason |-> reason, by_user |-> by, ts |-> CURRENT_TIMESTAMP]
    IN  IF log = <<>> THEN <<row>> ELSE [log EXCEPT ![Len(log)] = row]

\* INSERT INTO honor_log (user_id, delta, reason, by_user); id and ts by default
log_honor_change(log, user_id, delta, reason, by) ==
    Append(log, [id |-> Len(log) + 1, user_id |-> user_id, delta |-> delta,
                 reason |-> reason, by_user |-> by, ts |-> CURRENT_TIMESTAMP])

\* (mutation of add_user_honor: the effective change is logged)
add_user_honor_effective(uh, log, user_id, delta, reason, by, fail) ==
    LET current == get_user_honor(uh, user_id)
        new == set_user_honor(uh, user_id, current + delta)
    IN  [user_honor |-> IF fail \in {"get_user_honor", "set_user_honor"}
                        THEN uh ELSE new,
         honor_log |-> IF fail \in {"get_user_honor", "set_user_honor",
                                    "log_honor_change"}
                       THEN log
                       ELSE log_honor_change(log, user_id,
                                get_user_honor(new, user_id) - current, reason, by)]

\* add_user_honor, stopped by a storage failure in the call `fail` ("none":
\* no failure). Each repository call commits on its own connection.
add_user_honor(uh, log, user_id, delta, reason, by, fail) ==
    LET current == get_user_honor(uh, user_id)
    IN  [user_honor |-> IF fail \in {"get_user_honor", "set_user_honor"}
                        THEN uh
                        ELSE set_user_honor(uh, user_id, current + delta),
         honor_log |-> IF fail \in {"get_user_honor", "set_user_honor",
                                    "log_honor_change"}
                       THEN log
                       ELSE log_honor_change(log, user_id, delta, reason, by)]

can_claim_daily(db, user_id) ==
    LET rows == {r \in db : r.user_id = user_id}
    IN  rows = {} \/ (CHOOSE r \in rows : TRUE).last_claimed # Today

\* (mutation of claim_daily: a plain INSERT, no ON CONFLICT clause)
claim_daily_append(db, user_id) ==
    db \cup {[user_id |-> user_id, last_claimed |-> Today]}

\* INSERT ... ON CONFLICT(user_id) DO UPDATE SET last_claimed = excluded.last_claimed
claim_daily(db, user_id) ==
    {r \in db : r.user_id # user_id}
        \cup {[user_id |-> user_id, last_claimed |-> Today]}

\* SELECT ts FROM loot_log WHERE user_id = ? ORDER BY ts DESC LIMIT 1
LastLootTs(ll, user_id) ==
    LET idx == {i \in 1..Len(ll) : ll[i].user_id = user_id}
        top == CHOOSE i \in idx : \A j \in idx : ~TsLess(ll[i].ts, ll[j].ts, 1)
    IN  ll[top].ts

can_open_lootbox(ll, user_id) ==
    IF \A i \in 1..Len(ll) : ll[i].user_id # user_id
    THEN TRUE
    ELSE TotalSeconds(Now, LastLootTs(ll, user_id)) >= LOOTBOX_COOLDOWN

\* INSERT INTO loot_log(user_id, reward); id and ts by default
log_lootbox(ll, user_id, reward) ==
    Append(ll, [id |-> Len(ll) + 1, user_id |-> user_id,
                ts |-> CURRENT_TIMESTAMP, reward |-> reward])

\* the rows of user_honor as (user_id, honor) tuples in an order the query
\* "ORDER BY honor <dir>" can return them: SQL leaves the order of equal
\* balances open
OrderBy(uh, dir) ==
    LET rows == {<<r.user_id, r.honor>> : r \in uh}
        n == Cardinality(rows)
    IN  {s \in [1..n -> rows] :
            /\ \A i, j \in 1..n : i # j => s[i] # s[j]
            /\ \A i \in 1..(n - 1) :
                  IF dir = "DESC" THEN s[i][2] >= s[i + 1][2]
                  ELSE s[i][2] <= s[i + 1][2]}

\* (mutation of Limit: LIMIT n + 1)
Limit_off_by_one(s, n) == SubSeq(s, 1, Min(n + 1, Len(s)))

\* LIMIT n, n >= 0
Limit(s, n) == SubSeq(s, 1, Min(n, Len(s)))

\* get_leaderboard, the two queries returning their rows in the orders desc
\* and asc
get_leaderboard(top, desc, asc) == <<Limit(desc, top), Limit(asc, top)>>

\* is_top1 (None counts as false), the query returning its rows in order desc
is_top1(user_id, desc) ==
    LET row == Limit(desc, 1)
    IN  row # <<>> /\ row[1][1] = user_id

\* the characters of the texts the handlers log as reasons and of the
\* patterns the achievements search for
Chars(s) ==
    CASE s = "" -> <<>>
      [] s = "Daily Bonus" ->
            <<"D", "a", "i", "l", "y", " ", "B", "o", "n", "u", "s">>
      [] s = "Lootbox" ->
            <<"L", "o", "o", "t", "b", "o", "x">>
      [] s = "Beleidigung: idiot" ->
            <<"B", "e", "l", "e", "i", "d", "i", "g", "u", "n", "g", ":",
              " ", "i", "d", "i", "o", "t">>
      [] s = "Beleidigung: (externe Beleidigung erkannt)" ->
            <<"B", "e", "l", "e", "i", "d", "i", "g", "u", "n", "g", ":",
              " ", "(", "e", "x", "t", "e", "r", "n", "e", " ", "B", "e",
              "l", "e", "i", "d", "i", "g", "u", "n", "g", " ", "e", "r",
              "k", "a", "n", "n", "t", ")">>
      [] s = "helped" ->
            <<"h", "e", "l", "p", "e", "d">>
      [] s = "bless" ->
            <<"b", "l", "e", "s", "s">>
      [] s = "insult" ->
            <<"i", "n", "s", "u", "l", "t">>

UpperCase == <<"A", "B", "C", "D", "E", "F", "G", "H", "I", "J", "K", "L", "M",
               "N", "O", "P", "Q", "R", "S", "T", "U", "V", "W", "X", "Y", "Z">>

LowerCase == <<"a", "b", "c", "d", "e", "f", "g", "h", "i", "j", "k", "l", "m",
               "n", "o", "p", "q", "r", "s", "t", "u", "v", "w", "x", "y", "z">>

\* SQLite's LIKE compares ASCII letters without regard to case
Fold(c) ==
    IF \E k \in 1..26 : UpperCase[k] = c
    THEN LowerCase[CHOOSE k \in 1..26 : UpperCase[k] = c]
    ELSE c

\* text LIKE '%' || reason || '%', for a reason without '%' or '_'
Like(text, reason) ==
    LET t == Chars(text)
        p == Chars(reason)
    IN  \E i \in 0..(Len(t) - Len(p)) :
            \A j \in 1..Len(p) : Fold(t[i + j]) = Fold(p[j])

\* SELECT COUNT(*) FROM honor_log WHERE user_id = ? AND reason LIKE ?
get_achievement_count(log, user_id, reason) ==
    Cardinality({i \in 1..Len(log) :
                    log[i].user_id = user_id /\ Like(log[i].reason, reason)})


----------------------------------------------------------------------------
(* Handler tasks *)

AddCalls == {"get_user_honor", "set_user_honor", "log_honor_change"}

NoCall == [fn |-> "none", raised |-> "none"]

\* the add_user_honor call a handler makes, and the repository call that
\* raised during the handler's block ("none": none did)
AddCall(user, delta, reason, by, fail) ==
    [fn |-> "add_user_honor", user_id |-> user, delta |-> delta,
     reason |-> reason, by |-> by, raised |-> fail]

\* task t, idle, runs a handler for `user` up to the await `next`; a handler
\* whose block raised ends there
Begin(t, user, fail, next) ==
    /\ pc[t] = "idle"
    /\ \A s \in 1..(t - 1) : pc[s] # "idle"
    /\ fail # "none" => faults < MaxFaults
    /\ faults' = IF fail = "none" THEN faults ELSE faults + 1
    /\ pc' = [pc EXCEPT ![t] = IF fail = "none" THEN next ELSE "idle"]
    /\ member' = [member EXCEPT ![t] = IF fail = "none" /\ next # "send_message"
                                       THEN user ELSE None]

\* the add_user_honor call of a handler
Apply(user, delta, reason, by, fail) ==
    LET r == add_user_honor(user_honor, honor_log, user, delta, reason, by, fail)
    IN  /\ Len(honor_log) < log_cap
        /\ user_honor' = r.user_honor
        /\ honor_log' = r.honor_log
        /\ call' = AddCall(user, delta, reason, by, fail)

\* the member object a handler passes to update_member_title, with the balance
\* update_member_title reads before its first await
NoMember == [honor |-> 0, nick |-> <<>>, roles |-> {}]

Enter(t, user) ==
    seen' = [seen EXCEPT ![t] =
                IF pc'[t] = "update_member_title"
                THEN [honor |-> get_user_honor(user_honor', user),
                      nick |-> nick[user], roles |-> roles[user]]
                ELSE NoMember]

\* thanks / helped / bless: refuse bots, else add_user_honor(user.id, amount)
Award(t, amount, user, fail) ==
    /\ fail \in AddCalls \cup {"none"}
    /\ IF user \in Bots
       THEN /\ fail = "none"
            /\ Begin(t, user, "none", "send_message")
            /\ call' = NoCall
            /\ UNCHANGED <<user_honor, honor_log>>
       ELSE /\ Begin(t, user, fail, "update_member_title")
            /\ Apply(user, amount, "", None, fail)
    /\ Enter(t, user)
    /\ UNCHANGED <<daily_bonus, loot_log, clock, tz, log_cap, RANKS, guild>>

thanks(t, user, fail) == Award(t, THANKS_AMOUNT, user, fail)
helped(t, user, fail) == Award(t, HELPED_AMOUNT, user, fail)
bless(t, user, fail) == Award(t, BLESS_AMOUNT, user, fail)

\* the penalty of on_message once is_insult has returned a word
Penalty(user, insult, fail) ==
    Apply(user, INSULT_PENALTY, "Beleidigung: " \o insult, user, fail)

\* on_message: a bot's message is ignored; a word of local_insults is
\* penalised at once; any other message waits for the profanity API
on_message(t, author, insult, fail) ==
    /\ fail \in AddCalls \cup {"none"}
    /\ IF author \in Bots
       THEN /\ fail = "none" /\ insult = "none"
            /\ Begin(t, author, "none", "send_message")
            /\ call' = NoCall
            /\ UNCHANGED <<user_honor, honor_log>>
       ELSE IF insult \in LocalInsults
       THEN /\ Begin(t, author, fail, "update_member_title")
            /\ Penalty(author, insult, fail)
       ELSE /\ fail = "none" /\ insult = "none"
            /\ Begin(t, author, "none", "is_insult")
            /\ call' = NoCall
            /\ UNCHANGED <<user_honor, honor_log>>
    /\ Enter(t, author)
    /\ UNCHANGED <<daily_bonus, loot_log, clock, tz, log_cap, RANKS, guild>>

\* the profanity API answers: flagged, or not (also on any API error)
is_insult_reply(t, flagged, fail) ==
    /\ pc[t] = "is_insult"
    /\ fail \in AddCalls \cup {"none"}
    /\ fail # "none" => faults < MaxFaults
    /\ faults' = IF fail = "none" THEN faults ELSE faults + 1
    /\ IF flagged
       THEN /\ pc' = [pc EXCEPT ![t] = IF fail = "none" THEN "update_member_title"
                                       ELSE "idle"]
            /\ member' = [member EXCEPT ![t] = IF fail = "none" THEN @ ELSE None]
            /\ Penalty(member[t], ExternalInsult, fail)
       ELSE /\ fail = "none"
            /\ pc' = [pc EXCEPT ![t] = "send_message"]
            /\ member' = [member EXCEPT ![t] = None]
            /\ call' = NoCall
            /\ UNCHANGED <<user_honor, honor_log>>
    /\ Enter(t, member[t])
    /\ UNCHANGED <<daily_bonus, loot_log, clock, tz, log_cap, RANKS, guild>>

DailyCalls == {"can_claim_daily"} \cup AddCalls \cup {"claim_daily"}

\* the command answers that the claim window is still closed
Refused(fn) == [fn |-> fn, raised |-> "none"]

\* (mutation of daily: the bonus is paid whatever can_claim_daily answers)
daily_unguarded(t, user, bonus, fail) ==
    /\ fail \in DailyCalls \cup {"none"}
    /\ IF fail = "can_claim_daily"
       THEN /\ Begin(t, user, fail, "send_message")
            /\ call' = [NoCall EXCEPT !.raised = fail]
            /\ UNCHANGED ledger
       ELSE /\ Begin(t, user, fail, "update_member_title")
            /\ Apply(user, bonus, "Daily Bonus", user, fail)
            /\ daily_bonus' = IF fail = "none" THEN claim_daily(daily_bonus, user)
                              ELSE daily_bonus
            /\ UNCHANGED loot_log
    /\ Enter(t, user)
    /\ UNCHANGED <<clock, tz, log_cap, RANKS, guild>>

\* daily: pay the bonus once per local calendar day
daily(t, user, bonus, fail) ==
    /\ fail \in DailyCalls \cup {"none"}
    /\ IF fail = "can_claim_daily"
       THEN /\ Begin(t, user, fail, "send_message")
            /\ call' = [NoCall EXCEPT !.raised = fail]
            /\ UNCHANGED ledger
       ELSE IF ~can_claim_daily(daily_bonus, user)
       THEN /\ fail = "none"
            /\ Begin(t, user, "none", "send_message")
            /\ call' = Refused("can_claim_daily")
            /\ UNCHANGED ledger
       ELSE /\ Begin(t, user, fail, "update_member_title")
            /\ Apply(user, bonus, "Daily Bonus", user, fail)
            /\ daily_bonus' = IF fail = "none" THEN claim_daily(daily_bonus, user)
                              ELSE daily_bonus
            /\ UNCHANGED loot_log
    /\ Enter(t, user)
    /\ UNCHANGED <<clock, tz, log_cap, RANKS, guild>>

LootCalls == {"can_open_lootbox"} \cup AddCalls \cup {"log_lootbox"}

lootbox(t, user, reward, fail) ==
    /\ fail \in LootCalls \cup {"none"}
    /\ IF fail = "can_open_lootbox"
       THEN /\ Begin(t, user, fail, "send_message")
            /\ call' = [NoCall EXCEPT !.raised = fail]
            /\ UNCHANGED ledger
       ELSE IF ~can_open_lootbox(loot_log, user)
       THEN /\ fail = "none"
            /\ Begin(t, user, "none", "send_message")
            /\ call' = Refused("can_open_lootbox")
            /\ UNCHANGED ledger
       ELSE /\ Begin(t, user, fail, "update_member_title")
            /\ Apply(user, reward, "Lootbox", user, fail)
            /\ loot_log' = IF fail = "none" THEN log_lootbox(loot_log, user, reward)
                           ELSE loot_log
            /\ UNCHANGED daily_bonus
    /\ Enter(t, user)
    /\ UNCHANGED <<clock, tz, log_cap, RANKS, guild>>

\* fixroles: reconciliation alone, no ledger write
fixroles(t, user) ==
    /\ Begin(t, user, "none", "update_member_title")
    /\ UNCHANGED <<ledger, clock, tz, log_cap, faults, RANKS, call, guild>>
    /\ Enter(t, user)

\* the reply of a handler (send_message, channel.send, process_commands)
\* returns and the handler ends
send_message(t) ==
    /\ pc[t] = "send_message"
    /\ pc' = [pc EXCEPT ![t] = "idle"]
    /\ UNCHANGED <<member, ledger, clock, tz, log_cap, faults, RANKS, call, guild,
                   seen>>

\* wall-clock time passes
Tick(step) ==
    /\ clock + step <= StartClock + MaxElapsed
    /\ clock' = clock + step
    /\ UNCHANGED <<ledger, tz, log_cap, pc, member, faults, RANKS, call, guild, seen>>

----------------------------------------------------------------------------
(* Rank functions *)

\* a tier of RANKS is <<threshold, name, emoji, colour>>
Threshold(r) == r[1]

\* the tiers rank tables are built from; the first three are the table of
\* the specification's scenario
TierPool == {<<0, "Peasant", "p", 1>>, <<1000, "Knight", "k", 2>>,
             <<5000, "Lord", "l", 3>>, <<-1000, "Serf", "s", 4>>}

DefaultRanks == <<<<0, "Peasant", "p", 1>>, <<1000, "Knight", "k", 2>>,
                  <<5000, "Lord", "l", 3>>>>

\* every listing of up to MaxTiers distinct tiers
RankTables ==
    {s \in UNION {[1..n -> TierPool] : n \in 1..MaxTiers} :
        \A i, j \in DOMAIN s : i # j => s[i] # s[j]}

HonorInputs == {HONOR_MIN, -1001, -1000, -999, -1, 0, 1, 500, 999, 1000, 1001,
                3000, 4999, 5000, 5001, HONOR_MAX}

\* sorted(..., key=lambda x: x[0]): x goes behind the tiers not above it
RECURSIVE InsertAsc(_, _)
InsertAsc(x, s) ==
    IF s = <<>> THEN <<x>>
    ELSE IF Threshold(Head(s)) <= Threshold(x) THEN <<Head(s)>> \o InsertAsc(x, Tail(s))
    ELSE <<x>> \o s

RECURSIVE SortedAsc(_)
SortedAsc(ranks) ==
    IF ranks = <<>> THEN <<>>
    ELSE InsertAsc(ranks[Len(ranks)], SortedAsc(SubSeq(ranks, 1, Len(ranks) - 1)))

\* sorted(..., key=lambda x: x[0], reverse=True): x goes behind the tiers
\* not below it
RECURSIVE InsertDesc(_, _)
InsertDesc(x, s) ==
    IF s = <<>> THEN <<x>>
    ELSE IF Threshold(Head(s)) >= Threshold(x) THEN <<Head(s)>> \o InsertDesc(x, Tail(s))
    ELSE <<x>> \o s

RECURSIVE SortedDesc(_)
SortedDesc(ranks) ==
    IF ranks = <<>> THEN <<>>
    ELSE InsertDesc(ranks[Len(ranks)], SortedDesc(SubSeq(ranks, 1, Len(ranks) - 1)))

\* <<name, emoji, colour>> of tier r
RankOf(r) == <<r[2], r[3], r[4]>>

get_rank(ranks, honor) ==
    LET s == SortedDesc(ranks)
        hit == {i \in 1..Len(s) : honor >= Threshold(s[i])}
    IN  IF hit # {}
        THEN RankOf(s[CHOOSE i \in hit : \A j \in hit : i <= j])
        ELSE RankOf(ranks[1])

\* (mutation of FirstAbove: honor <= threshold)
FirstAbove_le(s, honor) ==
    LET above == {i \in 1..Len(s) : honor <= Threshold(s[i])}
    IN  IF above = {} THEN 0 ELSE CHOOSE i \in above : \A j \in above : i <= j

\* the first tier of the ascending scan with honor < threshold, 0 if none
FirstAbove(s, honor) ==
    LET above == {i \in 1..Len(s) : honor < Threshold(s[i])}
    IN  IF above = {} THEN 0 ELSE CHOOSE i \in above : \A j \in above : i <= j

\* the parts of the string get_progress_bar returns, and its prev
get_progress_bar(ranks, honor) ==
    LET s == SortedAsc(ranks)
        brk == FirstAbove(s, honor)
        next_rank == IF brk = 0 THEN s[Len(s)] ELSE s[brk]
        prev == IF brk = 0 THEN s[Len(s)] ELSE IF brk = 1 THEN s[1] ELSE s[brk - 1]
        span == Threshold(next_rank) - Threshold(prev)
        pos == honor - Threshold(prev)
        \* 0 if span == 0 else min(max(pos / span, 0), 1), as <<num, den>>
        percent == IF span = 0 THEN <<0, 1>>
                   ELSE IF pos < 0 THEN <<0, 1>>
                   ELSE IF pos > span THEN <<1, 1>>
                   ELSE <<pos, span>>
    IN  [prev |-> prev, next_rank |-> next_rank, span |-> span, pos |-> pos,
         percent |-> percent,
         filled |-> (percent[1] * BAR_LEN) \div percent[2]]

\* get_rank is called with some balance (rank, honor, leaderboard commands)
GetRank(honor) ==
    /\ call' = [fn |-> "get_rank", honor |-> honor, raised |-> "none",
                result |-> get_rank(RANKS, honor)]
    /\ UNCHANGED <<ledger, clock, tz, log_cap, pc, member, faults, RANKS, guild, seen>>

\* get_progress_bar is called with some balance (honor command)
GetProgressBar(honor) ==
    /\ call' = [fn |-> "get_progress_bar", honor |-> honor, raised |-> "none",
                result |-> get_progress_bar(RANKS, honor)]
    /\ UNCHANGED <<ledger, clock, tz, log_cap, pc, member, faults, RANKS, guild, seen>>

\* the leaderboard command (any LIMIT, not only the default)
GetLeaderboard(top) ==
    /\ \E desc \in OrderBy(user_honor, "DESC"), asc \in OrderBy(user_honor, "ASC") :
          call' = [fn |-> "get_leaderboard", top |-> top, raised |-> "none",
                   result |-> get_leaderboard(top, desc, asc)]
    /\ UNCHANGED <<ledger, clock, tz, log_cap, pc, member, faults, RANKS, guild, seen>>

\* get_achievements evaluates the top1 achievement of a user
IsTop1(user_id) ==
    /\ \E desc \in OrderBy(user_honor, "DESC") :
          call' = [fn |-> "is_top1", user_id |-> user_id, raised |-> "none",
                   result |-> is_top1(user_id, desc)]
    /\ UNCHANGED <<ledger, clock, tz, log_cap, pc, member, faults, RANKS, guild, seen>>

----------------------------------------------------------------------------
(* Achievements *)

\* an entry of ACHIEVEMENTS is <<key, description>>; its condition is Cond
ACHIEVEMENTS == <<<<"helper", "100x geholfen">>, <<"blesser", "50x gesegnet">>,
                  <<"no_insult", "Nie beleidigt">>,
                  <<"top1", "Platz 1 Leaderboard">>>>

\* the condition of the achievement `key` for the user uid, is_top1's query
\* returning its rows in the order desc
Cond(key, log, desc, uid) ==
    CASE key = "helper" -> get_achievement_count(log, uid, "helped") >= HELPER_COUNT
      [] key = "blesser" -> get_achievement_count(log, uid, "bless") >= BLESSER_COUNT
      [] key = "no_insult" -> get_achievement_count(log, uid, "insult") = 0
      [] key = "top1" -> is_top1(uid, desc)

\* get_achievements: the descriptions of the unlocked achievements in the
\* order of ACHIEVEMENTS (the parts of the joined text), or the text that
\* says there are none
get_achievements(log, desc, user_id) ==
    LET unlocked == [i \in 1..Len(ACHIEVEMENTS) |->
                        Cond(ACHIEVEMENTS[i][1], log, desc, user_id)]
        parts == SelectSeq([i \in 1..Len(ACHIEVEMENTS) |->
                               IF unlocked[i] THEN ACHIEVEMENTS[i][2] ELSE ""],
                           LAMBDA d : d # "")
    IN  IF parts = <<>> THEN <<"Keine Achievements.">> ELSE parts

\* get_achievements is called for a user (honor command)
GetAchievements(user_id) ==
    /\ \E desc \in OrderBy(user_honor, "DESC") :
          call' = [fn |-> "get_achievements", user_id |-> user_id,
                   raised |-> "none",
                   result |-> get_achievements(honor_log, desc, user_id)]
    /\ UNCHANGED <<ledger, clock, tz, log_cap, pc, member, faults, RANKS, guild,
                   seen>>

----------------------------------------------------------------------------
(* Reconciliation of a member's nickname and roles with the balance *)

REWARD_ROLES == <<<<10000, "VIP">>, <<50000, "Elite">>, <<100000, "Star">>>>

\* a nickname is the sequence of the words of nick.split(" "); a word is its
\* text, or for a word of digits behind any '+'/'-' its sign text and number
Word(w) == [s |-> w, n |-> -1]
Digits(sign, k) == [s |-> sign, n |-> k]

\* f"{honor:+d}"
Signed(honor) == IF honor < 0 THEN Digits("-", -honor) ELSE Digits("+", honor)

\* parts[1].lstrip('+-').isdigit()
IsDigit(w) == w.n >= 0

\* member.name, the account's user name
Name(user) == IF user = 1 THEN <<Word("bob")>> ELSE <<Word("eve")>>

\* guild.owner_id
owner_id == 2

Everyone == "@everyone"                 \* the role with role.is_default()
AdministratorRoles == {"Root"}          \* roles with permissions.administrator
ModRoles == {"Moderator"}               \* names containing "mod"
AdminRoles == {"Admins"}                \* names containing "admin"
OtherRoles == {"Gamer"}                 \* any other role of the guild

\* f"{emoji} {name}"
RoleName(r) == r[3] \o " " \o r[2]

RankRoles(ranks) == {RoleName(ranks[i]) : i \in DOMAIN ranks}
RewardRoles == {REWARD_ROLES[i][2] : i \in DOMAIN REWARD_ROLES}

\* (mutation of Skipped: role names are not looked at)
Skipped_by_flag_only(role) ==
    \/ role = Everyone
    \/ role \in AdministratorRoles

\* the roles the removal loop of update_member_title skips
Skipped(role) ==
    \/ role = Everyone
    \/ role \in AdministratorRoles
    \/ role \in ModRoles
    \/ role \in AdminRoles

\* the tier update_member_title computes from the balance
TitleRank(ranks, honor) ==
    LET s == SortedDesc(ranks)
        hit == {i \in 1..Len(s) : honor >= Threshold(s[i])}
    IN  IF hit # {}
        THEN s[CHOOSE i \in hit : \A j \in hit : i <= j]
        ELSE ranks[1]

\* base: member.name, or the rest of a nickname that starts with a tier
\* emoji and a number
Base(ranks, name, old_nick) ==
    IF /\ old_nick # <<>>
       /\ Len(old_nick) >= 3
       /\ old_nick[1] \in {Word(ranks[i][3]) : i \in DOMAIN ranks}
       /\ IsDigit(old_nick[2])
    THEN SubSeq(old_nick, 3, Len(old_nick))
    ELSE name

\* f"{rank_emoji} {honor:+d} {base}"
NewNick(ranks, name, old_nick, honor) ==
    <<Word(TitleRank(ranks, honor)[3]), Signed(honor)>> \o Base(ranks, name, old_nick)

Op(do, what) == [do |-> do, what |-> what]

\* (mutation of check_rewards: a denied edit of a reward role is skipped)
RECURSIVE check_rewards_caught(_, _, _, _, _, _)
check_rewards_caught(i, honor, view, groles, forb, acc) ==
    IF i > Len(REWARD_ROLES) THEN acc
    ELSE LET threshold == REWARD_ROLES[i][1]
             role == REWARD_ROLES[i][2]
             do == IF honor >= threshold /\ role \in groles /\ role \notin view
                   THEN "add_roles"
                   ELSE IF honor < threshold /\ role \in groles /\ role \in view
                   THEN "remove_roles"
                   ELSE "none"
         IN  IF do = "none"
             THEN check_rewards_caught(i + 1, honor, view, groles, forb, acc)
             ELSE IF role \in forb
             THEN check_rewards_caught(i + 1, honor, view, groles, forb,
                     [acc EXCEPT !.ops = @ \cup {Op(do, role)},
                                 !.denied = @ \cup {Op(do, role)}])
             ELSE check_rewards_caught(i + 1, honor, view, groles, forb,
                     [acc EXCEPT !.ops = @ \cup {Op(do, role)},
                                 !.roles = IF do = "add_roles" THEN @ \cup {role}
                                           ELSE @ \ {role}])

\* check_rewards from its i-th reward role on: `view` is member.roles, acc the
\* member's roles on Discord and the edits made so far; a denied edit raises
RECURSIVE check_rewards(_, _, _, _, _, _)
check_rewards(i, honor, view, groles, forb, acc) ==
    IF i > Len(REWARD_ROLES) THEN acc
    ELSE LET threshold == REWARD_ROLES[i][1]
             role == REWARD_ROLES[i][2]
             do == IF honor >= threshold /\ role \in groles /\ role \notin view
                   THEN "add_roles"
                   ELSE IF honor < threshold /\ role \in groles /\ role \in view
                   THEN "remove_roles"
                   ELSE "none"
         IN  IF do = "none"
             THEN check_rewards(i + 1, honor, view, groles, forb, acc)
             ELSE IF role \in forb
             THEN [acc EXCEPT !.ops = @ \cup {Op(do, role)},
                              !.denied = @ \cup {Op(do, role)},
                              !.raised = "Forbidden"]
             ELSE check_rewards(i + 1, honor, view, groles, forb,
                     [acc EXCEPT !.ops = @ \cup {Op(do, role)},
                                 !.roles = IF do = "add_roles" THEN @ \cup {role}
                                           ELSE @ \ {role}])

\* the end of update_member_title: await check_rewards(member), which reads
\* the balance honor2 and member.roles
CheckRewards(m, groles, forb, honor2, fresh, nick1, roles2, ops2) ==
    check_rewards(1, honor2, IF fresh THEN roles2 ELSE m.roles, groles, forb,
                  [nick |-> nick1, roles |-> roles2, ops |-> ops2,
                   denied |-> {o \in ops2 : o.what \in forb}, raised |-> "none"])

\* update_member_title from the lookup of the target role on: the rank role
\* is added if the guild has it and member.roles does not list it
AddTarget(m, groles, forb, honor2, fresh, target, nick1, roles1, ops1) ==
    LET adds == IF /\ target \in groles
                   /\ target \notin (IF fresh THEN roles1 ELSE m.roles)
                THEN {target} ELSE {}
    IN  CheckRewards(m, groles, forb, honor2, fresh, nick1,
                     roles1 \cup (adds \ forb),
                     ops1 \cup {Op("add_roles", role) : role \in adds})

\* update_member_title and check_rewards for `user`, whose member object m
\* the handler holds: the nickname and roles `now` on Discord after it, the
\* edits it attempted and those Discord denied. `fresh`: the member object
\* has followed the role edits of this very call (a cached member that
\* received the gateway's member updates); else it still lists the roles
\* it was built with. honor2: the balance check_rewards reads.
Reconciled(ranks, user, m, now, groles, forb, honor2, fresh) ==
    LET edits == IF owner_id # user THEN {Op("edit", "nick")} ELSE {}
        removals == {role \in m.roles : ~Skipped(role)}
    IN  AddTarget(m, groles, forb, honor2, fresh,
                  RoleName(TitleRank(ranks, m.honor)),
                  IF edits # {} /\ "nick" \notin forb
                  THEN NewNick(ranks, Name(user), m.nick, m.honor) ELSE now.nick,
                  now.roles \ (removals \ forb),
                  edits \cup {Op("remove_roles", role) : role \in removals})

\* update_member_title of task t on the guild as it is
ThisTitle(t, fresh) ==
    Reconciled(RANKS, member[t], seen[t],
               [nick |-> nick[member[t]], roles |-> roles[member[t]]],
               guild_roles, forbidden, get_user_honor(user_honor, member[t]), fresh)

\* task t's update_member_title ends with the result r
Retitled(t, r) ==
    /\ pc[t] = "update_member_title"
    /\ nick' = [nick EXCEPT ![member[t]] = r.nick]
    /\ roles' = [roles EXCEPT ![member[t]] = r.roles]
    /\ pc' = [pc EXCEPT ![t] = IF r.raised = "none" THEN "send_message" ELSE "idle"]
    /\ member' = [member EXCEPT ![t] = None]
    /\ seen' = [seen EXCEPT ![t] = NoMember]
    /\ UNCHANGED <<honor_log, daily_bonus, loot_log, clock, tz, log_cap, faults, RANKS,
                   call, guild_roles, forbidden>>

\* (mutation of update_member_title: a raised Forbidden undoes the balance)
update_member_title_rollback(t, fresh) ==
    /\ pc[t] = "update_member_title"
    /\ Retitled(t, ThisTitle(t, fresh))
    /\ user_honor' = {row \in user_honor :
                         row.user_id = member[t] => pc'[t] = "send_message"}

\* update_member_title resumes after its first await and runs to its end;
\* the handler goes on to its reply unless check_rewards raised
update_member_title(t, fresh) ==
    /\ pc[t] = "update_member_title"
    /\ Retitled(t, ThisTitle(t, fresh))
    /\ UNCHANGED user_honor

\* a guild administrator lets the bot make an edit it was denied
grant(what) ==
    /\ what \in forbidden
    /\ forbidden' = forbidden \ {what}
    /\ UNCHANGED <<ledger, clock, tz, log_cap, pc, member, faults, RANKS, call,
                   nick, roles, guild_roles, seen>>

----------------------------------------------------------------------------
(* Specifications *)

InitLedger ==
    /\ user_honor = {}
    /\ honor_log = <<>>
    /\ daily_bonus = {}
    /\ loot_log = <<>>
    /\ clock = StartClock
    /\ pc = [t \in Tasks |-> "idle"]
    /\ member = [t \in Tasks |-> None]
    /\ faults = 0
    /\ call = NoCall
    /\ seen = [t \in Tasks |-> NoMember]

\* a guild without rank or reward roles in which the bot may edit no member
InitGuild ==
    /\ nick = [u \in Users |-> <<>>]
    /\ roles = [u \in Users |-> {Everyone}]
    /\ guild_roles = {Everyone}
    /\ forbidden = {"nick"}

\* a fresh database on a host whose local time is UTC
Init ==
    InitLedger /\ InitGuild /\ tz = 0 /\ log_cap = MaxLog /\ RANKS = DefaultRanks

\* a fresh database on a host in any of the time zones
InitClock ==
    /\ InitLedger /\ InitGuild
    /\ tz \in TzOffsets /\ log_cap = MaxLog /\ RANKS = DefaultRanks

\* any rank table
InitRank ==
    InitLedger /\ InitGuild /\ tz = 0 /\ log_cap = MaxLog /\ RANKS \in RankTables

\* the handlers task t can start or resume, F the storage failures allowed
Handlers(t, F) ==
    \/ \E u \in Members, f \in F : thanks(t, u, f)
    \/ \E u \in Members, f \in F : helped(t, u, f)
    \/ \E u \in Members, f \in F : bless(t, u, f)
    \/ \E u \in Members, w \in LocalInsults \cup {"none"}, f \in F :
          on_message(t, u, w, f)
    \/ \E b \in BOOLEAN, f \in F : is_insult_reply(t, b, f)
    \/ \E u \in Users, d \in DailyBonuses, f \in F : daily(t, u, d, f)
    \/ \E u \in Users, r \in LootRewards, f \in F : lootbox(t, u, r, f)
    \/ \E u \in Users : fixroles(t, u)

\* the awaits of task t that return
Awaits(t) ==
    \/ \E fresh \in BOOLEAN : update_member_title(t, fresh)
    \/ send_message(t)

\* Concurrent handlers at one wall-clock instant, storage never failing
Next ==
    \E t \in Tasks : Handlers(t, {"none"}) \/ Awaits(t)

Spec == Init /\ [][Next]_vars

\* The commands with a claim window, one at a time, while wall-clock time
\* passes
NextClock ==
    \/ \E u \in Users, d \in DailyBonuses : daily(1, u, d, "none")
    \/ \E u \in Users, r \in LootRewards : lootbox(1, u, r, "none")
    \/ \E u \in Members : thanks(1, u, "none")
    \/ Awaits(1)
    \/ \E s \in ClockSteps : Tick(s)

SpecClock == InitClock /\ [][NextClock]_vars

\* One handler at a time, any repository call of it may raise
NextFail ==
    Handlers(1, DailyCalls \cup LootCalls \cup {"none"}) \/ Awaits(1)

SpecFail == Init /\ [][NextFail]_vars

\* The rank functions applied to any balance under any rank table
NextRank ==
    \/ \E h \in HonorInputs : GetRank(h)
    \/ \E h \in HonorInputs : GetProgressBar(h)

SpecRank == InitRank /\ [][NextRank]_vars

\* The members' nicknames and roles reconciled by one handler at a time, in
\* a guild where member 1 starts with any of NickInputs and RoleInputs
NickInputs == {<<>>, <<Word("Bobby")>>,
               <<Word("k"), Digits("", 5), Word("guys")>>}
RoleInputs ==
    {{Everyone} \cup held :
        held \in SUBSET {RoleName(DefaultRanks[1]), "VIP", "Gamer", "Moderator"}}
    \cup {{Everyone} \cup AdministratorRoles \cup ModRoles \cup AdminRoles
              \cup OtherRoles}
AllRoles == {Everyone} \cup RankRoles(DefaultRanks) \cup RewardRoles
                \cup AdministratorRoles \cup ModRoles \cup AdminRoles \cup OtherRoles
GuildInputs == {AllRoles, AllRoles \ {RoleName(DefaultRanks[3]), "Elite"}}
ForbiddenInputs == SUBSET {"nick", RoleName(DefaultRanks[1]), "VIP"}

InitTitle ==
    /\ InitLedger /\ tz = 0 /\ log_cap = MaxLog /\ RANKS = DefaultRanks
    /\ nick \in {[u \in Users |-> IF u = owner_id THEN <<>> ELSE n] : n \in NickInputs}
    /\ roles \in {[u \in Users |-> IF u = owner_id THEN {Everyone} ELSE r] : r \in RoleInputs}
    /\ guild_roles \in GuildInputs
    /\ forbidden \in ForbiddenInputs

NextTitle ==
    \/ \E u \in Users : fixroles(1, u)
    \/ \E u \in Users \ {owner_id} : bless(1, u, "none")
    \/ \E u \in Users \ {owner_id}, w \in LocalInsults : on_message(1, u, w, "none")
    \/ Awaits(1)
    \/ \E what \in forbidden : grant(what)

SpecTitle == InitTitle /\ [][NextTitle]_vars

\* Reconciliation of the members retried for ever at a fixed balance, while
\* the guild's administrators lift what the bot is denied
NextRetry ==
    \/ \E u \in Users : fixroles(1, u)
    \/ Awaits(1)
    \/ \E what \in forbidden : grant(what)

InitRetry ==
    /\ InitTitle
    /\ guild_roles = AllRoles
    /\ roles[1] \in {{Everyone}, {Everyone, RoleName(DefaultRanks[1]), "Gamer"}}
    /\ forbidden \in {{}, {"nick"}, {"nick", RoleName(DefaultRanks[1])}}

SpecRetry ==
    /\ InitRetry /\ [][NextRetry]_vars
    /\ WF_vars(\E u \in Users \ {owner_id} : fixroles(1, u))
    /\ WF_vars(Awaits(1))
    /\ WF_vars(\E what \in forbidden : grant(what))

\* The leaderboard queries on any table of up to three accounts
BoardUsers == {1, 2, 3}
BoardHonors == {HONOR_MIN, -500, 0, 500}
BoardTables ==
    UNION {{ {[user_id |-> u, honor |-> f[u]] : u \in us} : f \in [us -> BoardHonors]} :
              us \in SUBSET BoardUsers}
TopInputs == {1, 2, 10}

InitBoard ==
    /\ InitGuild /\ tz = 0 /\ log_cap = MaxLog /\ RANKS = DefaultRanks
    /\ user_honor \in BoardTables
    /\ honor_log = <<>> /\ daily_bonus = {} /\ loot_log = <<>>
    /\ clock = StartClock
    /\ pc = [t \in Tasks |-> "idle"]
    /\ member = [t \in Tasks |-> None]
    /\ faults = 0
    /\ call = NoCall
    /\ seen = [t \in Tasks |-> NoMember]

NextBoard ==
    \/ \E top \in TopInputs : GetLeaderboard(top)
    \/ \E u \in BoardUsers : IsTop1(u)

SpecBoard == InitBoard /\ [][NextBoard]_vars

\* The achievements of the members while messages are screened and honor is
\* awarded
NextAch ==
    \/ \E u \in Users, w \in LocalInsults \cup {"none"} : on_message(1, u, w, "none")
    \/ \E flagged \in BOOLEAN : is_insult_reply(1, flagged, "none")
    \/ \E u \in Users : helped(1, u, "none")
    \/ \E u \in Users : bless(1, u, "none")
    \/ Awaits(1)
    \/ \E u \in Users : GetAchievements(u)

SpecAch == Init /\ [][NextAch]_vars

\* One member is confirmed as helper again and again
InitHelper ==
    InitLedger /\ InitGuild /\ tz = 0 /\ log_cap = MaxHelped /\ RANKS = DefaultRanks

NextHelper ==
    \/ helped(1, 1, "none")
    \/ Awaits(1)
    \/ GetAchievements(1)

SpecHelper == InitHelper /\ [][NextHelper]_vars

----------------------------------------------------------------------------
(* Properties *)

\* the balance stored for user u, 0 without a row
Balance(u) ==
    LET rows == {r \in user_honor : r.user_id = u}
    IN  IF rows = {} THEN 0 ELSE (CHOOSE r \in rows : TRUE).honor

\* the deltas logged for user u, oldest first
RECURSIVE DeltasOf(_, _)
DeltasOf(log, u) ==
    IF log = <<>> THEN <<>>
    ELSE (IF Head(log).user_id = u THEN <<Head(log).delta>> ELSE <<>>)
         \o DeltasOf(Tail(log), u)

RECURSIVE Sum(_)
Sum(ds) == IF ds = <<>> THEN 0 ELSE Head(ds) + Sum(Tail(ds))

InRange(x) == IF x > HONOR_MAX THEN HONOR_MAX ELSE IF x < HONOR_MIN THEN HONOR_MIN ELSE x

\* b_k = clamp(b_{k-1} + d_k), from b_0 = b
RECURSIVE ClampedFold(_, _)
ClampedFold(b, ds) ==
    IF ds = <<>> THEN b ELSE ClampedFold(InRange(b + Head(ds)), Tail(ds))

Perms(n) == {f \in [1..n -> 1..n] : \A i, j \in 1..n : i # j => f[i] # f[j]}

\* this step made an add_user_honor call that returned
Added ==
    /\ call'.fn = "add_user_honor"
    /\ call'.raised \notin {"get_user_honor", "set_user_honor", "log_honor_change"}
    /\ call' # call \/ honor_log' # honor_log \/ user_honor' # user_honor

\* C1: every stored balance lies in [HONOR_MIN, HONOR_MAX].
C1_BalanceInRange ==
    \A r \in user_honor : HONOR_MIN <= r.honor /\ r.honor <= HONOR_MAX

\* a balance held at HONOR_MIN although the deltas sum to less
C1_Witness ==
    \E u \in Users : Balance(u) = HONOR_MIN /\ Sum(DeltasOf(honor_log, u)) < HONOR_MIN

\* C2: the balance of every user is the fold of the user's deltas clamped at
\* each step, starting from 0.
C2_ClampedAtEachStep ==
    \A u \in Users : Balance(u) = ClampedFold(0, DeltasOf(honor_log, u))

\* deltas that crossed HONOR_MAX and came back: the balance differs from the
\* clamped sum
C2_Witness ==
    \E u \in Users :
        /\ Len(DeltasOf(honor_log, u)) = 3
        /\ Balance(u) # InRange(Sum(DeltasOf(honor_log, u)))
        /\ Balance(u) \notin {HONOR_MIN, HONOR_MAX}

\* C3: every add_user_honor call that returns appends exactly one honor_log
\* row, for the user and with the delta requested; and a user whose log is
\* +100000 twice has balance 144000.
C3_LogsRequestedDelta ==
    /\ [][Added =>
            /\ Len(honor_log') = Len(honor_log) + 1
            /\ SubSeq(honor_log', 1, Len(honor_log)) = honor_log
            /\ honor_log'[Len(honor_log')].user_id = call'.user_id
            /\ honor_log'[Len(honor_log')].delta = call'.delta
            /\ honor_log'[Len(honor_log')].reason = call'.reason
            /\ honor_log'[Len(honor_log')].by_user = call'.by]_vars
    /\ [](\A u \in Users :
            DeltasOf(honor_log, u) = <<BLESS_AMOUNT, BLESS_AMOUNT>>
                => Balance(u) = HONOR_MAX)

C3_Witness ==
    \E u \in Users :
        /\ DeltasOf(honor_log, u) = <<BLESS_AMOUNT, BLESS_AMOUNT>>
        /\ Balance(u) = HONOR_MAX

\* C4: under every interleaving of the handlers, the balance of every user is
\* the result of applying the deltas of the handlers that have reached
\* add_user_honor in some serial order, clamping at each step.
C4_NoLostUpdate ==
    \A u \in Users :
        LET ds == DeltasOf(honor_log, u)
        IN  \E p \in Perms(Len(ds)) :
                Balance(u) = ClampedFold(0, [i \in 1..Len(ds) |-> ds[p[i]]])

\* two handlers in flight at once that both changed the same user's balance,
\* the later change by an on_message that had waited for the profanity API
C4_Witness ==
    /\ pc[1] = "update_member_title" /\ pc[2] = "update_member_title"
    /\ member[1] = member[2]
    /\ Len(honor_log) = 2
    /\ DeltasOf(honor_log, member[1]) = <<THANKS_AMOUNT, INSULT_PENALTY>>
    /\ honor_log[2].reason = "Beleidigung: " \o ExternalInsult
    /\ Balance(member[1]) = THANKS_AMOUNT + INSULT_PENALTY

\* C5: a storage failure inside add_user_honor leaves user_honor and
\* honor_log as they were.
C5_AtomicOnFailure ==
    [][call'.raised \in AddCalls => UNCHANGED <<user_honor, honor_log>>]_vars

\* C6: honor_log only grows at its end: each step keeps the rows written.
C6_AppendOnly ==
    [][/\ Len(honor_log') >= Len(honor_log)
       /\ SubSeq(honor_log', 1, Len(honor_log)) = honor_log]_vars

\* rows written, then a reconciliation running after a storage failure
C6_Witness ==
    /\ Len(honor_log) >= 2
    /\ faults > 0
    /\ pc[1] = "update_member_title"

\* the tier the claim names: greatest threshold <= honor, else the lowest
TierFor(ranks, honor) ==
    LET below == {i \in 1..Len(ranks) : Threshold(ranks[i]) <= honor}
        best == CHOOSE i \in below :
                    \A j \in below : Threshold(ranks[j]) <= Threshold(ranks[i])
        lowest == CHOOSE i \in 1..Len(ranks) :
                    \A j \in 1..Len(ranks) : Threshold(ranks[i]) <= Threshold(ranks[j])
    IN  IF below # {} THEN ranks[best] ELSE ranks[lowest]

\* C7: get_rank returns the tier with the greatest threshold <= balance, and
\* the lowest-threshold tier when the balance is below all thresholds, in
\* whatever order the table lists its tiers.
C7_GetRankTier ==
    call.fn = "get_rank" => call.result = RankOf(TierFor(RANKS, call.honor))

\* C8: the filled fraction of get_progress_bar is (balance - prev.threshold)
\* clamped into [0, span] over span, so in [0, 1], with 0..16 cells filled; at
\* a tier's exact threshold it is 0 with that tier as prev; and it is 0 when
\* span = 0, which is when the balance is at or above the top tier or below
\* the lowest.
C8_ProgressFraction ==
    call.fn = "get_progress_bar" =>
        LET r == call.result
            h == call.honor
            ts == {Threshold(RANKS[i]) : i \in 1..Len(RANKS)}
        IN  /\ r.percent[2] > 0
            /\ 0 <= r.percent[1] /\ r.percent[1] <= r.percent[2]
            /\ r.span > 0 =>
                 r.percent[1] * r.span = Min(Max(r.pos, 0), r.span) * r.percent[2]
            /\ r.span = 0 => r.percent[1] = 0
            /\ r.filled \in 0..BAR_LEN
            /\ h \in ts => r.percent[1] = 0 /\ Threshold(r.prev) = h
            /\ r.span = 0 <=> ((\A t \in ts : h >= t) \/ (\A t \in ts : h < t))

\* a balance exactly at an inner threshold of a table not listed ascending
C8_Witness ==
    /\ call.fn = "get_progress_bar"
    /\ Len(RANKS) = 3
    /\ Threshold(RANKS[1]) > Threshold(RANKS[2])
    /\ call.honor = 1000
    /\ Threshold(call.result.prev) = 1000
    /\ call.result.span > 0

\* the local calendar day, counted from the epoch
LocalDay == (clock + tz) \div 86400

DailyRows(u) == {r \in daily_bonus : r.user_id = u}

CanClaim(u) == can_claim_daily(daily_bonus, u)

\* this step claimed the daily bonus of user u
Claimed(u) ==
    /\ Added
    /\ call'.reason = "Daily Bonus"
    /\ call'.user_id = u
    /\ call'.raised = "none"

\* C9: can_claim_daily is true for a user without daily_bonus row; it is
\* false after claim_daily and stays false while the local calendar date is
\* the same; it is true again once the date has changed; and daily_bonus
\* holds at most one row per user, exactly one after a claim.
C9_DailyWindow ==
    /\ [](\A u \in Users :
            /\ DailyRows(u) = {} => CanClaim(u)
            /\ Cardinality(DailyRows(u)) <= 1)
    /\ [][\A u \in Users :
            /\ Claimed(u) => ~CanClaim(u)' /\ Cardinality(DailyRows(u)') = 1
            /\ (~CanClaim(u) /\ LocalDay' = LocalDay) => ~CanClaim(u)'
            /\ (~CanClaim(u) /\ LocalDay' # LocalDay) => CanClaim(u)']_vars

\* a user who claimed on one day and again on a later day
C9_Witness ==
    \E u \in Users :
        /\ ~CanClaim(u)
        /\ Len(SelectSeq(honor_log,
                LAMBDA e : e.user_id = u /\ e.reason = "Daily Bonus")) = 2

\* seconds since the epoch of a UTC timestamp
EpochOf(ts) ==
    DaysFromCivil(<<ts[1], ts[2], ts[3]>>) * 86400 + ts[4] * 3600 + ts[5] * 60 + ts[6]

HasLoot(u) == \E i \in 1..Len(loot_log) : loot_log[i].user_id = u

\* C10: whatever the time-zone offset, can_open_lootbox is true for a user
\* without loot_log row, and otherwise true exactly when at least 86400
\* seconds of wall-clock time have passed since the user's latest row.
C10_LootboxCooldown ==
    \A u \in Users :
        can_open_lootbox(loot_log, u) <=>
            (~HasLoot(u) \/ clock - EpochOf(LastLootTs(loot_log, u)) >= LOOTBOX_COOLDOWN)


----------------------------------------------------------------------------
(* Reconciliation properties *)

\* task t's update_member_title runs to its end in this step
UmtStep(t) == pc[t] = "update_member_title" /\ pc'[t] # "update_member_title"

\* the role edits among a set of attempted edits
RoleOps(ops) == {o \in ops : o.do \in {"add_roles", "remove_roles"}}

\* update_member_title run for `user` with balance `honor` on a member object
\* just built from the nickname and the roles `now` on Discord
RunOn(user, honor, now, fresh) ==
    Reconciled(RANKS, user, [honor |-> honor, nick |-> now.nick, roles |-> now.roles],
               now, guild_roles, forbidden, honor, fresh)

\* C11: Reconciliation is idempotent: when update_member_title (with
\* check_rewards) has run for a member without any denied edit, running it
\* again with the same balance on the nickname and roles it left makes no
\* nickname change and no role edit, and leaves nickname and roles as they are.
C11_Idempotent ==
    [][\A t \in Tasks : \A fresh \in BOOLEAN :
          LET user == member[t]
              honor == seen[t].honor
              first == Reconciled(RANKS, user, seen[t],
                                  [nick |-> nick[user], roles |-> roles[user]],
                                  guild_roles, forbidden, honor, fresh)
              left == [nick |-> nick'[user], roles |-> roles'[user]]
              again == RunOn(user, honor, left, fresh)
          IN  (/\ UmtStep(t)
               /\ first.denied = {} /\ first.raised = "none"
               /\ left = [nick |-> first.nick, roles |-> first.roles]
               /\ get_user_honor(user_honor, user) = honor)
              => /\ RoleOps(again.ops) = {}
                 /\ again.nick = left.nick
                 /\ again.roles = left.roles]_vars

\* task t's update_member_title runs to its end in this step, and Discord
\* denies none of its edits
FailureFree(t) ==
    /\ UmtStep(t)
    /\ \E fresh \in BOOLEAN :
          /\ ThisTitle(t, fresh).denied = {} /\ ThisTitle(t, fresh).raised = "none"
          /\ nick'[member[t]] = ThisTitle(t, fresh).nick
          /\ roles'[member[t]] = ThisTitle(t, fresh).roles

\* C12: After a reconciliation in which no edit was denied, the member holds
\* the reward role (t, name) iff the balance is >= t, for each of VIP, Elite
\* and Star that exists in the guild.
C12_RewardRoles ==
    [][\A t \in Tasks :
          FailureFree(t) =>
              \A i \in DOMAIN REWARD_ROLES :
                  REWARD_ROLES[i][2] \in guild_roles =>
                      (REWARD_ROLES[i][2] \in roles'[member[t]]
                          <=> Balance(member[t]) >= REWARD_ROLES[i][1])]_vars

\* C13: One denied edit (Forbidden) during a reconciliation leaves only that
\* edit unapplied: the calling handler still goes on to its reply, and the
\* reward roles the member lacks, is entitled to and the bot may give are all
\* given.
C13_FailureIsolated ==
    [][\A t \in Tasks :
          (/\ UmtStep(t)
           /\ \E fresh \in BOOLEAN : Cardinality(ThisTitle(t, fresh).denied) = 1) =>
              /\ pc'[t] = "send_message"
              /\ \A i \in DOMAIN REWARD_ROLES :
                    (/\ REWARD_ROLES[i][2] \in guild_roles \ forbidden
                     /\ REWARD_ROLES[i][2] \notin seen[t].roles
                     /\ Balance(member[t]) >= REWARD_ROLES[i][1])
                    => REWARD_ROLES[i][2] \in roles'[member[t]]]_vars

\* C14: External reflection never changes the ledger: whether
\* update_member_title and check_rewards succeed, are partly denied or raise,
\* they leave user_honor, honor_log, daily_bonus and loot_log as the handler
\* committed them.
C14_LedgerUntouched ==
    [][\A t \in Tasks : UmtStep(t) => UNCHANGED ledger]_vars

\* blessed to 100000, member 1 has the new nickname but neither VIP, which the
\* bot may not give, nor Star, which it may: check_rewards raised at VIP
C14_Witness ==
    /\ Balance(1) = BLESS_AMOUNT /\ Len(honor_log) = 1
    /\ pc[1] = "idle"
    /\ Len(nick[1]) >= 2 /\ nick[1][2] = Signed(BLESS_AMOUNT)
    /\ "VIP" \in guild_roles \cap forbidden
    /\ "Star" \in guild_roles \ forbidden
    /\ "Star" \notin roles[1]

\* a nickname that starts with a prefix reconciliation wrote: a tier symbol
\* and a signed balance
Prefixed(n) ==
    /\ Len(n) >= 3
    /\ n[1] \in {Word(RANKS[i][3]) : i \in DOMAIN RANKS}
    /\ IsDigit(n[2]) /\ n[2].s \in {"+", "-"}

\* the member's display name: the nickname if one is set, else the user name
DisplayName(user) == IF nick[user] # <<>> THEN nick[user] ELSE Name(user)

\* C15: The nickname reconciliation writes is '<tier symbol> <signed balance>
\* <base display name>', the base display name being the current display name
\* without a previously written '<tier symbol> <signed balance> ' prefix, or,
\* if it has none, the current display name (a custom nickname if one is set)
\* unchanged.
C15_NicknameBase ==
    [][\A t \in Tasks :
          (UmtStep(t) /\ member[t] # owner_id /\ "nick" \notin forbidden) =>
              LET user == member[t]
                  base == IF Prefixed(nick[user])
                          THEN SubSeq(nick[user], 3, Len(nick[user]))
                          ELSE DisplayName(user)
              IN  nick'[user] = <<Word(get_rank(RANKS, seen[t].honor)[2]),
                                  Signed(seen[t].honor)>> \o base]_vars

\* C16: After update_member_title has run for a member with no edit denied,
\* and the rank role of the current tier exists in the guild, the member holds
\* the rank role '<symbol> <name>' of get_rank(balance) and no other rank
\* role, also when it held that role before.
C16_RankRole ==
    [][\A t \in Tasks :
          LET user == member[t]
              rank == get_rank(RANKS, Balance(user))
              target == rank[2] \o " " \o rank[1]
          IN  (FailureFree(t) /\ target \in guild_roles) =>
                  roles'[user] \cap RankRoles(RANKS) = {target}]_vars

\* nickname, rank role and reward roles of `user` all match the balance
Synced(user) ==
    LET honor == Balance(user)
        rank == get_rank(RANKS, honor)
        target == rank[2] \o " " \o rank[1]
    IN  /\ Len(nick[user]) >= 3
        /\ nick[user][1] = Word(rank[2]) /\ nick[user][2] = Signed(honor)
        /\ roles[user] \cap RankRoles(RANKS) = {target} \cap guild_roles
        /\ \A i \in DOMAIN REWARD_ROLES :
              REWARD_ROLES[i][2] \in guild_roles =>
                  (REWARD_ROLES[i][2] \in roles[user] <=> honor >= REWARD_ROLES[i][1])

\* C17: Partial application converges: at a fixed balance, when reconciliation
\* is retried and the denials eventually stop, the member eventually is
\* Synced (nickname, rank role and reward roles match the balance) and stays
\* Synced.
C17_Converges ==
    \A user \in Users \ {owner_id} : <>[]Synced(user)

\* C18: A claim outside its window is a normal negative result that changes
\* nothing: a daily command run while the user has claimed today, or a lootbox
\* command run while can_open_lootbox is false, raises nothing, leaves the
\* four tables unchanged, reconciles no member and goes on to its reply.
C18_RefusalChangesNothing ==
    [][\A t \in Tasks : \A user \in Users :
          (\/ /\ \E r \in DailyRows(user) : r.last_claimed = CivilFromDays(LocalDay)
              /\ \E bonus \in DailyBonuses : daily(t, user, bonus, "none")
           \/ /\ ~can_open_lootbox(loot_log, user)
              /\ \E reward \in LootRewards : lootbox(t, user, reward, "none"))
          => /\ UNCHANGED <<ledger, nick, roles>>
             /\ call'.raised = "none"
             /\ pc'[t] = "send_message" /\ member'[t] = None]_vars

\* user 1, who claimed today and opened a lootbox less than a day ago, has
\* just been refused a second daily bonus
C18_Witness ==
    /\ call = Refused("can_claim_daily") /\ pc[1] = "send_message"
    /\ \E r \in DailyRows(1) : r.last_claimed = CivilFromDays(LocalDay)
    /\ ~can_open_lootbox(loot_log, 1) /\ HasLoot(1)
    /\ Len(honor_log) = 2

----------------------------------------------------------------------------
(* Leaderboard properties *)

Honors(rows) == [i \in DOMAIN rows |-> rows[i][2]]

\* rows lists n of the accounts (all, if there are fewer), none twice, and
\* no account left out comes before a listed one
Ranked(rows, n, before(_, _)) ==
    LET accounts == {<<r.user_id, r.honor>> : r \in user_honor}
        listed == {rows[i] : i \in DOMAIN rows}
    IN  /\ Len(rows) = Min(n, Cardinality(accounts))
        /\ listed \subseteq accounts
        /\ Cardinality(listed) = Len(rows)
        /\ \A i \in 1..(Len(rows) - 1) : ~before(rows[i + 1][2], rows[i][2])
        /\ \A a \in accounts \ listed : \A r \in listed : ~before(a[2], r[2])

\* C19: get_leaderboard(n) returns (top, flop): top the n accounts with the
\* highest balances, highest first, flop the n accounts with the lowest
\* balances, lowest first, fewer when there are fewer accounts; balances
\* {500, -500, 0} with n = 2 give top [500, 0] and flop [-500, 0]; a user
\* without an account never appears.
C19_Leaderboard ==
    call.fn = "get_leaderboard" =>
        /\ Ranked(call.result[1], call.top, LAMBDA a, b : a > b)
        /\ Ranked(call.result[2], call.top, LAMBDA a, b : a < b)
        /\ ({r.honor : r \in user_honor} = {500, -500, 0}
               /\ Cardinality(user_honor) = 3 /\ call.top = 2)
           => /\ Honors(call.result[1]) = <<500, 0>>
              /\ Honors(call.result[2]) = <<-500, 0>>

\* the scenario: three accounts with 500, -500 and 0, user 3 without tie
C19_Witness ==
    /\ call.fn = "get_leaderboard" /\ call.top = 2
    /\ user_honor = {[user_id |-> 1, honor |-> 500], [user_id |-> 2, honor |-> -500],
                     [user_id |-> 3, honor |-> 0]}
    /\ call.result = << <<<<1, 500>>, <<3, 0>>>>, <<<<2, -500>>, <<3, 0>>>> >>

\* C20: is_top1(user) is true iff the user holds the highest balance of all
\* accounts, for exactly one of the holders when several do; so at most one
\* user has is_top1 true, and a user with is_top1 true has a balance >= the
\* balance get_user_honor returns for every other user.
C20_Top1 ==
    /\ \A desc \in OrderBy(user_honor, "DESC") :
          Cardinality({u \in BoardUsers : is_top1(u, desc)}) <= 1
    /\ call.fn = "is_top1" /\ call.result =>
          \A other \in BoardUsers :
              get_user_honor(user_honor, call.user_id) >= get_user_honor(user_honor, other)

----------------------------------------------------------------------------
(* Achievements *)

\* the reasons on_message logs with a profanity penalty
PenaltyReasons == {"Beleidigung: " \o w : w \in LocalInsults \cup {ExternalInsult}}

\* on_message has applied a profanity penalty to user u
Penalised(u) ==
    \E i \in 1..Len(honor_log) :
        /\ honor_log[i].user_id = u
        /\ honor_log[i].delta = INSULT_PENALTY
        /\ honor_log[i].reason \in PenaltyReasons

Reported(description) ==
    /\ call.fn = "get_achievements"
    /\ \E i \in 1..Len(call.result) : call.result[i] = description

\* C21: get_achievements reports 'Nie beleidigt' for a user iff on_message
\* has never applied a profanity penalty to that user: once a penalty has
\* been applied, for a word of the list or for an externally flagged message,
\* 'Nie beleidigt' is no longer reported.
C21_NieBeleidigt ==
    call.fn = "get_achievements" =>
        (Reported("Nie beleidigt") <=> ~Penalised(call.user_id))

\* the helped commands that confirmed user u as helper
Helped(u) ==
    Cardinality({i \in 1..Len(honor_log) :
                    /\ honor_log[i].user_id = u
                    /\ honor_log[i].delta = HELPED_AMOUNT
                    /\ honor_log[i].by_user = None})

\* the bless commands that targeted user u
Blessed(u) ==
    Cardinality({i \in 1..Len(honor_log) :
                    /\ honor_log[i].user_id = u
                    /\ honor_log[i].delta = BLESS_AMOUNT
                    /\ honor_log[i].by_user = None})

\* C22: once every command has ended, get_achievements reports '100x
\* geholfen' for a user iff at least 100 successful helped commands have
\* confirmed that user as helper, and '50x gesegnet' iff at least 50
\* successful bless commands have targeted that user.
C22_CountAchievements ==
    (call.fn = "get_achievements" /\ \A t \in Tasks : pc[t] = "idle") =>
        /\ Reported("100x geholfen") <=> Helped(call.user_id) >= HELPER_COUNT
        /\ Reported("50x gesegnet") <=> Blessed(call.user_id) >= BLESSER_COUNT

----------------------------------------------------------------------------
(* One daily bonus per calendar date *)

\* the calendar date of a timestamp
DateOf(ts) == <<ts[1], ts[2], ts[3]>>

\* the 'Daily Bonus' rows of honor_log for user u
DailyEntries(u) ==
    {i \in 1..Len(honor_log) :
        honor_log[i].user_id = u /\ honor_log[i].reason = "Daily Bonus"}

\* C23: honor_log holds at most one 'Daily Bonus' row per user and calendar
\* date, and the daily_bonus record of a user holds the date of the user's
\* newest 'Daily Bonus' row, also after a storage failure has interrupted a
\* daily handler between its steps.
C23_OneDailyPerDate ==
    \A u \in Users :
        /\ \A i, j \in DailyEntries(u) :
              DateOf(honor_log[i].ts) = DateOf(honor_log[j].ts) => i = j
        /\ \A i \in DailyEntries(u) :
              (\A j \in DailyEntries(u) : j <= i) =>
                  \E r \in daily_bonus :
                      /\ r.user_id = u
                      /\ r.last_claimed = DateOf(honor_log[i].ts)

----------------------------------------------------------------------------
(* Roles reconciliation does not manage *)

\* the default role, the roles with administrator permission and the roles
\* whose name contains 'mod' or 'admin'
ProtectedRoles == {Everyone} \cup AdministratorRoles \cup ModRoles \cup AdminRoles

\* a role reconciliation has no reason to remove at the balance `honor`: a
\* protected role, or a role that is neither a rank-tier role nor a reward
\* role whose threshold exceeds the balance
Unrelated(role, honor) ==
    \/ role \in ProtectedRoles
    \/ /\ role \notin RankRoles(RANKS)
       /\ ~\E i \in DOMAIN REWARD_ROLES :
              REWARD_ROLES[i][2] = role /\ REWARD_ROLES[i][1] > honor

\* the roles of a set that are neither rank-tier roles nor reward roles
Foreign(held) == held \ (RankRoles(RANKS) \cup RewardRoles)

====
